---- MODULE Spec2Model ----
(***************************************************************************)
(* AnthropicAgent (anthropic_agent.py): one process_request call driving   *)
(* the transport through the bounded tool-use recursion loop, in the       *)
(* single-response variant (_handle_single_response_loop) and in the       *)
(* streaming variant (_handle_streaming.stream_generator on top of         *)
(* handle_streaming_response).                                             *)
(*                                                                         *)
(* Python's None is the empty sequence <<>>, an optional value v is <<v>>. *)
(* In the loop model the system prompt is a token sequence; its text is    *)
(* composed by replace_placeholders, modelled on strings of characters.    *)
(***************************************************************************)
EXTENDS Integers, Sequences, FiniteSets, TLC

\* ------------------------------------------------------------ bounds
\* the largest toolMaxRecursions a request is configured with
MaxConfigured == 3
\* the lowest toolMaxRecursions a request is configured with is -MinConfigured
MinConfigured == 1

\* rounds explored by the specification of the termination property; more
\* than any budget of the model allows
MaxRounds == 6

\* the longest template, in pieces
MaxPieces == 6

\* ------------------------------------------------------------ values
None == <<>>

Some(v) == <<v>>

NoError == "none"

\* self.default_max_recursions
default_max_recursions == 5

\* content blocks of a transport response: .type, and .text on text blocks only
TextBlock(t) == [type |-> "text", text |-> t]

ToolUseBlock == [type |-> "tool_use", text |-> ""]

\* `content.text` raises AttributeError on a block that is not a text block
HasTextAttr(block) == block.type = "text"

\* stream events of the transport
TextEvent(t) == [type |-> "text", text |-> t]

StopEvent == [type |-> "content_block_stop", text |-> ""]

\* what the scripted transport answers in one round: the events of the stream
\* (streaming mode) and the content blocks of the (final) message
Scripts ==
  { [events |-> <<TextEvent("a")>>,
     content |-> <<TextBlock("a")>>],
    [events |-> <<TextEvent("a"), StopEvent, TextEvent("b"), StopEvent>>,
     content |-> <<TextBlock("a"), TextBlock("b")>>],
    [events |-> <<>>,
     content |-> <<>>],
    [events |-> <<StopEvent>>,
     content |-> <<ToolUseBlock>>],
    [events |-> <<TextEvent("b"), StopEvent, StopEvent>>,
     content |-> <<TextBlock("b"), ToolUseBlock>>],
    [events |-> <<StopEvent, TextEvent("a"), StopEvent>>,
     content |-> <<ToolUseBlock, TextBlock("a")>>] }

Contents == { s.content : s \in Scripts }

\* the stored chat histories a request is made with: ConversationMessage values
HistoryMessage(role, content) == [role |-> role, content |-> content]

ChatHistories ==
  { <<>>,
    <<HistoryMessage("user", <<[text |-> "q"]>>),
      HistoryMessage("assistant", <<[text |-> "r"], [text |-> "s"]>>)>>,
    <<HistoryMessage("user", <<[text |-> "q"]>>),
      HistoryMessage("assistant", <<>>)>>,
    <<HistoryMessage("user", <<[text |-> "q"]>>)>> }

\* tool configurations: tool is an AgentTools registry, a raw list, or neither;
\* useToolHandler and toolMaxRecursions are optional keys
ToolConfigs ==
  { [tool |-> t, useToolHandler |-> h, hasMax |-> TRUE, toolMaxRecursions |-> n] :
      t \in {"AgentTools", "list", "other"}, h \in BOOLEAN,
      n \in (0 - MinConfigured)..MaxConfigured }
  \cup
  { [tool |-> t, useToolHandler |-> h, hasMax |-> FALSE, toolMaxRecursions |-> 0] :
      t \in {"AgentTools", "list"}, h \in BOOLEAN }

\* the errors collaborators raise: the retriever, the transport, the tool
\* handler, the hook
ExternalErrors == {"RetrieverError", "TransportError", "ToolDispatchError", "HookError"}

VARIABLES
  streaming,            \* self.streaming
  retriever,            \* whether self.retriever is set
  tool_config,          \* self.tool_config: None or Some(ToolConfigs element)
  chat_history,         \* the chat_history argument of process_request
  pc,                   \* where the request's control flow stands
  max_recursions,       \* the loop's local budget
  continue_with_tools,  \* the loop's local flag
  messages,             \* the list that is both `messages` and payload_input['messages']
  llm_response,         \* llm_response / final_response: None or Some(content)
  stream,               \* events the open stream has not delivered yet
  stream_content,       \* the content get_final_message() of the open stream gives
  emitted,              \* chunks the lazy sequence has yielded to the caller
  result,               \* what process_request returned (single mode): None or Some(msg)
  error,                \* the error the caller received, NoError if none
  transportCalls,       \* history: transport calls started
  toolDispatches,       \* history: tool handlers invoked
  responses,            \* history: contents of the responses received, in order
  scriptedTexts,        \* history: text of every text event the transport scripted
  raised,               \* history: the error a collaborator raised, NoError if none
  payload_rest,         \* the fields of payload_input other than 'messages'
  log,                  \* history: transport, stream and dispatch events, in order
  dispatchLog,          \* history: the handler calls _process_tool_block made
  payloads,             \* history: the payload each transport call was made with
  prompt_template,      \* self.prompt_template, a string as a sequence of characters
  custom_variables,     \* self.custom_variables, a mapping from names to values
  system_prompt,        \* self.system_prompt, the rendered template
  frames,               \* the local variables of each of two concurrent calls
  own                   \* history: what each of the two calls has done itself

vars == <<streaming, retriever, tool_config, chat_history, pc, max_recursions,
          continue_with_tools, messages, llm_response, stream, stream_content,
          emitted, result, error, transportCalls, toolDispatches, responses,
          scriptedTexts, raised, payload_rest, log, dispatchLog, payloads,
          prompt_template, custom_variables, system_prompt, frames, own>>

config == <<streaming, retriever, tool_config, chat_history>>

history == <<transportCalls, toolDispatches, responses, scriptedTexts, raised>>

observed == <<log, dispatchLog, payloads>>

agent == <<prompt_template, custom_variables, system_prompt>>

calls == <<frames, own>>

single == <<chat_history, pc, max_recursions, continue_with_tools, messages,
            llm_response, stream, stream_content, emitted, result, error,
            history, payload_rest, observed>>

\* an entry of the event log
Event(ev, round) == [ev |-> ev, round |-> round]

\* ------------------------------------------------------------ pure helpers
\* a test that looks at the first block only
HasToolUseInFirstBlock(content) ==
  content # <<>> /\ content[1].type = "tool_use"

\* any('tool_use' in content.type for content in response.content)
HasToolUse(content) == \E i \in 1..Len(content) : content[i].type = "tool_use"

\* _prepare_conversation: one {role, content} turn per stored message, the
\* first block's text (or '') as content, then the new input as a user turn
Turn(role, kind, text, blocks, round) ==
  [role |-> role, kind |-> kind, text |-> text, blocks |-> blocks, round |-> round]

FlattenMessage(msg) ==
  Turn(IF msg.role = "user" THEN "user" ELSE "assistant", "text",
       IF msg.content # <<>> THEN msg.content[1].text ELSE "", <<>>, 0)

\* the new input appended to the caller's own list
ChatHistoryAppendedInPlace(input_text, history_) ==
  Append(history_, HistoryMessage("user", <<[text |-> input_text]>>))

\* the caller's chat_history after _prepare_conversation: the comprehension
\* builds a new list and only reads the stored messages
ChatHistoryAfterPrepare(input_text, history_) == history_

\* a conversation built without the new user turn
PrepareConversationWithoutInput(input_text, history_) ==
  [i \in 1..Len(history_) |-> FlattenMessage(history_[i])]

_prepare_conversation(input_text, history_) ==
  [i \in 1..Len(history_) |-> FlattenMessage(history_[i])]
    \o <<Turn("user", "text", input_text, <<>>, 0)>>

\* a budget that ignores the absence of tools
GetMaxRecursionsIgnoringTools(tc) ==
  IF tc # None /\ tc[1].hasMax THEN tc[1].toolMaxRecursions ELSE default_max_recursions

\* _get_max_recursions
_get_max_recursions(tc) ==
  IF tc = None THEN 1
  ELSE IF tc[1].hasMax THEN tc[1].toolMaxRecursions ELSE default_max_recursions

\* _prepare_tool_config, called by _build_input when tool_config is truthy:
\* the error it raises, NoError if it returns
_prepare_tool_config(tc) ==
  IF tc = None THEN NoError
  ELSE IF tc[1].tool \in {"AgentTools", "list"} THEN NoError
  ELSE "RuntimeError"

\* a loop test that looks at the flag only
LoopConditionIgnoringBudget(c, m) == c

\* a loop test that only stops on a budget of exactly 0
LoopConditionNonZero(c, m) == c /\ m # 0

\* a loop test that is off by one
LoopConditionOffByOne(c, m) == c /\ m >= 0

\* the loop condition of both loops
LoopCondition(c, m) == c /\ m > 0

\* {"role": "assistant", "content": response.content}
AssistantTurn(content, round) == Turn("assistant", "assistant_blocks", "", content, round)

\* the turn a tool handler returns for the response of a round
ToolResultTurn(round) == Turn("user", "tool_result", "", <<>>, round)

\* the text of the last block instead of the first
FinalTextOfLastBlock(content) == content[Len(content)].text

\* ConversationMessage(role=ASSISTANT, content=[{"text": response.content[0].text}])
FinalText(content) == content[1].text

FinalMessage(content) ==
  [role |-> "assistant", content |-> <<[text |-> FinalText(content)]>>]

\* the error building the final message raises, NoError if it is built
FinalMessageError(resp) ==
  IF resp = None THEN "AttributeError"
  ELSE IF resp[1] = <<>> THEN "IndexError"
  ELSE IF ~HasTextAttr(resp[1][1]) THEN "AttributeError"
  ELSE NoError

\* AgentStreamResponse(text=...) and AgentStreamResponse(final_message=...)
TextChunk(t) == [text |-> Some(t), final_message |-> None]

FinalChunk(msg) == [text |-> None, final_message |-> Some(msg)]

\* a handler that swallows the error and lets the loop go on
Swallow(e) == [pc |-> "loop", error |-> NoError]

\* `except Exception as error: ...; raise error`: where control goes and what
\* the caller receives
Reraise(e) == [pc |-> "error", error |-> e]

\* _prepare_system_prompt: the composed prompt, then the retrieved context
\* under its header when a retriever is set
_prepare_system_prompt(has_retriever) ==
  IF has_retriever THEN <<"prompt", "context">> ELSE <<"prompt">>

\* _build_input: the payload's fields besides 'messages'; 'tools' only when
\* tool_config is set
_build_input(prompt, tc) ==
  [model |-> "model_id",
   system |-> prompt,
   tools |-> IF tc = None THEN None ELSE Some(tc[1].tool)]

\* a stream used without its context manager: leaving the block closes nothing
StreamLeftOpen(events, round) == events

\* `async with self.client.messages.stream(...) as stream`: however the block
\* is left (normally, by an exception, by the generator being closed), the
\* stream of the round is closed
ExitStreamContext(events, round) == Append(events, Event("stream_close", round))

\* ------------------------------------------------------------ replace_placeholders
\* strings are sequences of one-character strings; NL is the newline
NL == "NL"

\* the characters the pattern's \w matches
WordChars == {"n", "x", "y", "z"}

\* a variable's value: a string, or a list of strings
Str(text) == [list |-> FALSE, items |-> <<text>>]

List(items) == [list |-> TRUE, items |-> items]

\* self.custom_variables = {}
NoVariables == [key \in {} |-> Str(<<>>)]

\* the default template: text without placeholders
DefaultTemplate == <<"n", "-", "n">>

RECURSIVE Join(_)
\* '\n'.join(value)
Join(items) ==
  IF items = <<>> THEN <<>>
  ELSE IF Len(items) = 1 THEN items[1]
  ELSE items[1] \o <<NL>> \o Join(Tail(items))

\* a replacement that drops a placeholder whose name is unknown
ReplaceDroppingUnknown(key, whole, variables) ==
  IF key \in DOMAIN variables
  THEN IF variables[key].list THEN Join(variables[key].items)
       ELSE variables[key].items[1]
  ELSE <<>>

\* replace(match), with key = match.group(1) and whole = match.group(0)
replace(key, whole, variables) ==
  IF key \in DOMAIN variables
  THEN IF variables[key].list THEN Join(variables[key].items)
       ELSE variables[key].items[1]
  ELSE whole

RECURSIVE WordRunEnd(_, _)
\* the index of the last character of the longest run of word characters
\* that starts at i (i - 1 when there is none): the greedy \w+
WordRunEnd(t, i) ==
  IF i <= Len(t) /\ t[i] \in WordChars THEN WordRunEnd(t, i + 1) ELSE i - 1

\* the index of the last character of a match of {{(\w+)}} that starts at p,
\* 0 when there is none; a shorter run of word characters is followed by a
\* word character and never by }}
MatchEnd(t, p) ==
  IF p + 1 <= Len(t) /\ t[p] = "{" /\ t[p + 1] = "{"
  THEN LET e == WordRunEnd(t, p + 2)
       IN  IF e >= p + 2 /\ e + 2 <= Len(t) /\ t[e + 1] = "}" /\ t[e + 2] = "}"
           THEN e + 2 ELSE 0
  ELSE 0

RECURSIVE Sub(_, _, _)
\* re.sub from position p: the leftmost match is replaced and the scan goes on
\* behind it, any other character is copied
Sub(t, p, variables) ==
  IF p > Len(t) THEN <<>>
  ELSE IF MatchEnd(t, p) > 0
       THEN replace(SubSeq(t, p + 2, MatchEnd(t, p) - 2),
                    SubSeq(t, p, MatchEnd(t, p)), variables)
            \o Sub(t, MatchEnd(t, p) + 1, variables)
       ELSE <<t[p]>> \o Sub(t, p + 1, variables)

\* re.sub(r'{{(\w+)}}', replace, template)
replace_placeholders(template, variables) == Sub(template, 1, variables)

\* ------------------------------------------------------------ concurrent calls
\* two calls of process_request on one agent
Requests == {1, 2}

\* all calls using the locals of the first call
SharedFrame(r) == 1

\* the locals of a call of process_request and of the functions it calls
\* belong to that call
Frame(r) == r

\* the locals of a call that has not started
NewFrame ==
  [pc |-> "start", messages |-> <<>>, max_recursions |-> 0,
   continue_with_tools |-> TRUE, llm_response |-> None,
   system |-> [prompt |-> <<>>, context |-> None],
   emitted |-> <<>>, result |-> None, error |-> NoError]

\* turns, responses and chunks carry the call they belong to
OwnTurn(role, kind, r, round) ==
  [role |-> role, kind |-> kind, owner |-> r, round |-> round]

OwnResponse(r, round, tool) == [owner |-> r, round |-> round, tool |-> tool]

\* ------------------------------------------------------------ initial state
InitRequest ==
  /\ streaming \in BOOLEAN
  /\ retriever \in BOOLEAN
  /\ tool_config \in {None} \cup { Some(tc) : tc \in ToolConfigs }
  /\ chat_history \in ChatHistories
  /\ pc = "start"
  /\ max_recursions = 0
  /\ continue_with_tools = TRUE
  /\ messages = <<>>
  /\ llm_response = None
  /\ stream = <<>>
  /\ stream_content = <<>>
  /\ emitted = <<>>
  /\ result = None
  /\ error = NoError
  /\ transportCalls = 0
  /\ toolDispatches = 0
  /\ responses = <<>>
  /\ scriptedTexts = <<>>
  /\ raised = NoError
  /\ payload_rest = None
  /\ log = <<>>
  /\ dispatchLog = <<>>
  /\ payloads = <<>>

\* the agent's prompt fields after a construction without custom_system_prompt
InitAgent ==
  /\ prompt_template = DefaultTemplate
  /\ custom_variables = NoVariables
  /\ system_prompt = <<>>

\* two calls of process_request that have not started
InitCalls ==
  /\ frames = [r \in Requests |-> NewFrame]
  /\ own = [r \in Requests |->
             [calls |-> 0, rounds |-> 0, entered |-> FALSE, last |-> None]]

Init == InitRequest /\ InitAgent /\ InitCalls

\* a resolution that tries the registry before the custom handler
ProcessToolBlockRegistryFirst(tc) ==
  IF tc = None THEN "TypeError"
  ELSE IF tc[1].tool = "AgentTools" THEN "tool_handler"
  ELSE IF tc[1].useToolHandler THEN "useToolHandler"
  ELSE "ValueError"

\* ------------------------------------------------------------ _process_tool_block
\* which handler _process_tool_block resolves to, or the error it raises
\* before invoking any ('useToolHandler' in None is a TypeError)
_process_tool_block(tc) ==
  IF tc = None THEN "TypeError"
  ELSE IF tc[1].useToolHandler THEN "useToolHandler"
  ELSE IF tc[1].tool = "AgentTools" THEN "tool_handler"
  ELSE "ValueError"

Handlers == {"useToolHandler", "tool_handler"}

\* a conversation argument that is a copy taken when the request was built
ConversationArgCopiedAtStart(payload_messages, initial_conversation) ==
  initial_conversation

\* the list _process_tool_block receives as `conversation`: the loops pass
\* `messages`, the very list _build_input stored as payload_input['messages']
ConversationArg(payload_messages, initial_conversation) == payload_messages

\* the call _process_tool_block makes: the custom handler with (response,
\* conversation), or the registry's tool_handler with the provider tag first
HandlerCall(tc, response, conversation, round) ==
  [handler |-> _process_tool_block(tc),
   provider |-> IF _process_tool_block(tc) = "tool_handler"
                  THEN Some("ANTHROPIC") ELSE None,
   response |-> response,
   conversation |-> conversation,
   round |-> round,
   returned |-> None]

\* `return tool_response`: what the loop appends is what the handler returned
ToolResponse(handler_result) == handler_result

\* ------------------------------------------------------------ actions
\* process_request up to the first loop test: _prepare_conversation,
\* _prepare_system_prompt (the retrieval, if any, returning), _build_input
\* (which raises on an unrecognised tool shape), _get_max_recursions
ProcessRequest ==
  /\ pc = "start"
  /\ messages' = _prepare_conversation("in", chat_history)
  /\ IF _prepare_tool_config(tool_config) # NoError
       THEN /\ pc' = "error"
            /\ error' = _prepare_tool_config(tool_config)
            /\ UNCHANGED max_recursions
       ELSE /\ pc' = "loop"
            /\ max_recursions' = _get_max_recursions(tool_config)
            /\ UNCHANGED error
  /\ payload_rest' =
       IF _prepare_tool_config(tool_config) # NoError THEN None
       ELSE Some(_build_input(_prepare_system_prompt(retriever), tool_config))
  /\ chat_history' = ChatHistoryAfterPrepare("in", chat_history)
  /\ system_prompt' = replace_placeholders(prompt_template, custom_variables)
  /\ UNCHANGED <<streaming, retriever, tool_config, continue_with_tools,
                 llm_response, stream, stream_content, emitted, result,
                 history, observed, prompt_template, custom_variables>>
  /\ UNCHANGED calls

\* process_request when retrieve_and_combine_results raises: nothing catches it
RetrieveFail ==
  /\ pc = "start"
  /\ retriever
  /\ messages' = _prepare_conversation("in", chat_history)
  /\ raised' = "RetrieverError"
  /\ pc' = "error"
  /\ error' = "RetrieverError"
  /\ chat_history' = ChatHistoryAfterPrepare("in", chat_history)
  /\ system_prompt' = replace_placeholders(prompt_template, custom_variables)
  /\ UNCHANGED <<streaming, retriever, tool_config, max_recursions, continue_with_tools, llm_response,
                 stream, stream_content, emitted, result, transportCalls,
                 toolDispatches, responses, scriptedTexts, payload_rest,
                 observed, prompt_template, custom_variables>>
  /\ UNCHANGED calls

\* the loop test holds: the transport call of the round starts
\* (messages.create, or messages.stream)
CallTransport ==
  /\ pc = "loop"
  /\ LoopCondition(continue_with_tools, max_recursions)
  /\ pc' = "awaiting"
  /\ transportCalls' = transportCalls + 1
  /\ log' = Append(log, Event("transport_call", transportCalls + 1))
  /\ payloads' = Append(payloads, [messages |-> messages, rest |-> payload_rest])
  /\ UNCHANGED <<config, max_recursions, continue_with_tools, messages,
                 llm_response, stream, stream_content, emitted, result, error,
                 toolDispatches, responses, scriptedTexts, raised,
                 payload_rest, dispatchLog>>
  /\ UNCHANGED agent
  /\ UNCHANGED calls

\* the transport call or the open stream raises; handle_single_response and
\* handle_streaming_response log and re-raise
TransportFail ==
  /\ pc \in {"awaiting", "streaming"}
  /\ raised' = "TransportError"
  /\ pc' = Reraise("TransportError").pc
  /\ error' = Reraise("TransportError").error
  /\ log' = IF pc = "streaming"
              THEN ExitStreamContext(log, transportCalls)
              ELSE log
  /\ UNCHANGED <<config, max_recursions, continue_with_tools, messages,
                 llm_response, stream, stream_content, emitted, result,
                 transportCalls, toolDispatches, responses, scriptedTexts,
                 payload_rest, dispatchLog, payloads>>
  /\ UNCHANGED agent
  /\ UNCHANGED calls

\* single-response loop: messages.create returns a response
SingleResponseReturn ==
  /\ ~streaming
  /\ pc = "awaiting"
  /\ \E c \in Contents :
       /\ llm_response' = Some(c)
       /\ responses' = Append(responses, c)
       /\ IF HasToolUse(c)
            THEN /\ messages' = Append(messages, AssistantTurn(c, transportCalls))
                 /\ pc' = "dispatching"
                 /\ UNCHANGED <<continue_with_tools, max_recursions>>
            ELSE /\ continue_with_tools' = FALSE
                 /\ max_recursions' = max_recursions - 1
                 /\ pc' = "loop"
                 /\ UNCHANGED messages
  /\ log' = Append(log, Event("transport_return", transportCalls))
  /\ UNCHANGED <<config, stream, stream_content, emitted, result, error,
                 transportCalls, toolDispatches, scriptedTexts, raised,
                 payload_rest, dispatchLog, payloads>>
  /\ UNCHANGED agent
  /\ UNCHANGED calls

\* streaming loop: messages.stream is entered
StreamOpened ==
  /\ streaming
  /\ pc = "awaiting"
  /\ \E s \in Scripts :
       /\ stream' = s.events
       /\ stream_content' = s.content
       /\ scriptedTexts' = scriptedTexts \o
            SelectSeq(s.events, LAMBDA e : e.type = "text")
  /\ pc' = "streaming"
  /\ log' = Append(log, Event("stream_open", transportCalls))
  /\ UNCHANGED <<config, max_recursions, continue_with_tools, messages,
                 llm_response, emitted, result, error, transportCalls,
                 toolDispatches, responses, raised, payload_rest, dispatchLog,
                 payloads>>
  /\ UNCHANGED agent
  /\ UNCHANGED calls

\* a text event: the hook is called, the chunk is yielded, and
\* stream_generator forwards it (it carries no final_message)
StreamTextEvent ==
  /\ pc = "streaming"
  /\ stream # <<>>
  /\ Head(stream).type = "text"
  /\ emitted' = Append(emitted, TextChunk(Head(stream).text))
  /\ stream' = Tail(stream)
  /\ UNCHANGED <<config, pc, max_recursions, continue_with_tools, messages,
                 llm_response, stream_content, result, error, history,
                 payload_rest, observed>>
  /\ UNCHANGED agent
  /\ UNCHANGED calls

\* a text event whose on_llm_new_token call raises: caught and re-raised
HookFail ==
  /\ pc = "streaming"
  /\ stream # <<>>
  /\ Head(stream).type = "text"
  /\ raised' = "HookError"
  /\ pc' = Reraise("HookError").pc
  /\ error' = Reraise("HookError").error
  /\ log' = ExitStreamContext(log, transportCalls)
  /\ UNCHANGED <<config, max_recursions, continue_with_tools, messages,
                 llm_response, stream, stream_content, emitted, result,
                 transportCalls, toolDispatches, responses, scriptedTexts,
                 payload_rest, dispatchLog, payloads>>
  /\ UNCHANGED agent
  /\ UNCHANGED calls

\* a content_block_stop event: `break`, the events after it are not read
StreamStopEvent ==
  /\ pc = "streaming"
  /\ stream # <<>>
  /\ Head(stream).type = "content_block_stop"
  /\ stream' = <<>>
  /\ UNCHANGED <<config, pc, max_recursions, continue_with_tools, messages,
                 llm_response, stream_content, emitted, result, error, history,
                 payload_rest, observed>>
  /\ UNCHANGED agent
  /\ UNCHANGED calls

\* the event loop is over: get_final_message, the stream's context is left,
\* the final chunk reaches stream_generator, which keeps it and tests it for
\* tool use
GetFinalMessage ==
  /\ pc = "streaming"
  /\ stream = <<>>
  /\ llm_response' = Some(stream_content)
  /\ responses' = Append(responses, stream_content)
  /\ IF HasToolUse(stream_content)
       THEN /\ messages' = Append(messages, AssistantTurn(stream_content, transportCalls))
            /\ pc' = "dispatching"
            /\ UNCHANGED <<continue_with_tools, max_recursions, emitted, error>>
       ELSE /\ continue_with_tools' = FALSE
            /\ UNCHANGED messages
            /\ IF FinalMessageError(Some(stream_content)) # NoError
                 THEN /\ pc' = "error"
                      /\ error' = FinalMessageError(Some(stream_content))
                      /\ UNCHANGED <<max_recursions, emitted>>
                 ELSE /\ emitted' = Append(emitted, FinalChunk(FinalMessage(stream_content)))
                      /\ max_recursions' = max_recursions - 1
                      /\ pc' = "loop"
                      /\ UNCHANGED error
  /\ log' = Append(ExitStreamContext(log, transportCalls),
                    Event("transport_return", transportCalls))
  /\ UNCHANGED <<config, stream, stream_content, result, transportCalls,
                 toolDispatches, scriptedTexts, raised, payload_rest,
                 dispatchLog, payloads>>
  /\ UNCHANGED agent
  /\ UNCHANGED calls

\* _process_tool_block up to the handler call
ProcessToolBlock ==
  /\ pc = "dispatching"
  /\ IF _process_tool_block(tool_config) \in Handlers
       THEN /\ pc' = "in_tool"
            /\ toolDispatches' = toolDispatches + 1
            /\ dispatchLog' =
                 Append(dispatchLog,
                        HandlerCall(tool_config, llm_response[1],
                                    ConversationArg(messages,
                                      _prepare_conversation("in", chat_history)),
                                    transportCalls))
            /\ UNCHANGED error
       ELSE /\ pc' = "error"
            /\ error' = _process_tool_block(tool_config)
            /\ UNCHANGED <<toolDispatches, dispatchLog>>
  /\ log' = Append(log, Event("bridge_call", transportCalls))
  /\ UNCHANGED <<config, max_recursions, continue_with_tools, messages,
                 llm_response, stream, stream_content, emitted, result,
                 transportCalls, responses, scriptedTexts, raised,
                 payload_rest, payloads>>
  /\ UNCHANGED agent
  /\ UNCHANGED calls

\* the handler returns: its turn is appended and the round ends
ToolReturn ==
  /\ pc = "in_tool"
  /\ messages' = Append(messages, ToolResponse(ToolResultTurn(transportCalls)))
  /\ max_recursions' = max_recursions - 1
  /\ pc' = "loop"
  /\ dispatchLog' = [dispatchLog EXCEPT
                       ![Len(dispatchLog)].returned = Some(ToolResultTurn(transportCalls))]
  /\ log' = Append(log, Event("bridge_return", transportCalls))
  /\ UNCHANGED <<config, continue_with_tools, llm_response, stream,
                 stream_content, emitted, result, error, history,
                 payload_rest, payloads>>
  /\ UNCHANGED agent
  /\ UNCHANGED calls

\* the handler raises: nothing catches it
ToolFail ==
  /\ pc = "in_tool"
  /\ raised' = "ToolDispatchError"
  /\ pc' = "error"
  /\ error' = "ToolDispatchError"
  /\ log' = Append(log, Event("bridge_raise", transportCalls))
  /\ UNCHANGED <<config, max_recursions, continue_with_tools, messages,
                 llm_response, stream, stream_content, emitted, result,
                 transportCalls, toolDispatches, responses, scriptedTexts,
                 payload_rest, dispatchLog, payloads>>
  /\ UNCHANGED agent
  /\ UNCHANGED calls

\* single-response loop: the loop test fails, the final message is built
ReturnFinal ==
  /\ ~streaming
  /\ pc = "loop"
  /\ ~LoopCondition(continue_with_tools, max_recursions)
  /\ IF FinalMessageError(llm_response) # NoError
       THEN /\ pc' = "error"
            /\ error' = FinalMessageError(llm_response)
            /\ UNCHANGED result
       ELSE /\ pc' = "done"
            /\ result' = Some(FinalMessage(llm_response[1]))
            /\ UNCHANGED error
  /\ UNCHANGED <<config, max_recursions, continue_with_tools, messages,
                 llm_response, stream, stream_content, emitted, history,
                 payload_rest, observed>>
  /\ UNCHANGED agent
  /\ UNCHANGED calls

\* streaming loop: the loop test fails, the lazy sequence ends
GeneratorEnd ==
  /\ streaming
  /\ pc = "loop"
  /\ ~LoopCondition(continue_with_tools, max_recursions)
  /\ pc' = "done"
  /\ UNCHANGED <<config, max_recursions, continue_with_tools, messages,
                 llm_response, stream, stream_content, emitted, result, error,
                 history, payload_rest, observed>>
  /\ UNCHANGED agent
  /\ UNCHANGED calls

\* the consumer takes a text chunk and then drops the lazy sequence: the
\* generators stay suspended at their yields, inside the stream's context
Abandon ==
  /\ pc = "streaming"
  /\ stream # <<>>
  /\ Head(stream).type = "text"
  /\ emitted' = Append(emitted, TextChunk(Head(stream).text))
  /\ stream' = Tail(stream)
  /\ pc' = "abandoned"
  /\ UNCHANGED <<config, max_recursions, continue_with_tools, messages,
                 llm_response, stream_content, result, error, history,
                 payload_rest, observed>>
  /\ UNCHANGED agent
  /\ UNCHANGED calls

\* the dropped generators are closed: GeneratorExit is raised at the yield of
\* handle_streaming_response, `except Exception` does not catch it, and the
\* stream's context is left
Finalize ==
  /\ pc = "abandoned"
  /\ pc' = "closed"
  /\ log' = ExitStreamContext(log, transportCalls)
  /\ UNCHANGED <<config, max_recursions, continue_with_tools, messages,
                 llm_response, stream, stream_content, emitted, result, error,
                 history, payload_rest, dispatchLog, payloads>>
  /\ UNCHANGED agent
  /\ UNCHANGED calls

\* ------------------------------------------------------------ two calls
\* process_request of call r up to its first suspension: the conversation,
\* update_system_prompt and the read of self.system_prompt, then either the
\* retrieval or the rest of the preparation
TwoStart(r) ==
  /\ frames[Frame(r)].pc = "start"
  /\ system_prompt' = replace_placeholders(prompt_template, custom_variables)
  /\ LET conv == <<OwnTurn("user", "text", r, 0)>>
         sys == [prompt |-> replace_placeholders(prompt_template, custom_variables),
                 context |-> None]
     IN  IF retriever
         THEN /\ frames' = [frames EXCEPT ![Frame(r)].pc = "retrieving",
                                          ![Frame(r)].messages = conv,
                                          ![Frame(r)].system = sys]
              /\ UNCHANGED own
         ELSE IF _prepare_tool_config(tool_config) # NoError
         THEN /\ frames' = [frames EXCEPT ![Frame(r)].pc = "error",
                                          ![Frame(r)].messages = conv,
                                          ![Frame(r)].system = sys,
                                          ![Frame(r)].error = _prepare_tool_config(tool_config)]
              /\ UNCHANGED own
         ELSE /\ frames' = [frames EXCEPT ![Frame(r)].pc = "loop",
                                          ![Frame(r)].messages = conv,
                                          ![Frame(r)].system = sys,
                                          ![Frame(r)].max_recursions =
                                             _get_max_recursions(tool_config)]
              /\ own' = [own EXCEPT ![r].entered = TRUE]
  /\ UNCHANGED <<streaming, retriever, tool_config, single, prompt_template,
                 custom_variables>>

\* the retrieval of call r returns: the context is added to the call's
\* prompt, then _build_input and _get_max_recursions
TwoRetrieved(r) ==
  /\ frames[Frame(r)].pc = "retrieving"
  /\ IF _prepare_tool_config(tool_config) # NoError
     THEN /\ frames' = [frames EXCEPT ![Frame(r)].pc = "error",
                                      ![Frame(r)].system.context = Some(r),
                                      ![Frame(r)].error = _prepare_tool_config(tool_config)]
          /\ UNCHANGED own
     ELSE /\ frames' = [frames EXCEPT ![Frame(r)].pc = "loop",
                                      ![Frame(r)].system.context = Some(r),
                                      ![Frame(r)].max_recursions =
                                         _get_max_recursions(tool_config)]
          /\ own' = [own EXCEPT ![r].entered = TRUE]
  /\ UNCHANGED <<streaming, retriever, tool_config, single, agent>>

\* the loop test of call r holds: its transport call starts
TwoCall(r) ==
  /\ frames[Frame(r)].pc = "loop"
  /\ LoopCondition(frames[Frame(r)].continue_with_tools,
                   frames[Frame(r)].max_recursions)
  /\ frames' = [frames EXCEPT ![Frame(r)].pc = "awaiting"]
  /\ own' = [own EXCEPT ![r].calls = @ + 1]
  /\ UNCHANGED <<streaming, retriever, tool_config, single, agent>>

\* streaming: a text chunk of call r's stream is handed to its consumer
TwoChunk(r) ==
  /\ streaming
  /\ frames[Frame(r)].pc = "awaiting"
  /\ frames' = [frames EXCEPT ![Frame(r)].pc = "chunked",
                              ![Frame(r)].emitted =
                                 Append(@, OwnResponse(r, own[r].calls, FALSE))]
  /\ UNCHANGED <<streaming, retriever, tool_config, single, agent, own>>

\* the transport call of call r returns a response, with or without a
\* tool-use block
TwoRespond(r, tool) ==
  /\ frames[Frame(r)].pc = IF streaming THEN "chunked" ELSE "awaiting"
  /\ own' = [own EXCEPT ![r].last = Some(OwnResponse(r, own[r].calls, tool)),
                        ![r].rounds = IF tool THEN @ ELSE @ + 1]
  /\ frames' =
       IF tool
       THEN [frames EXCEPT
               ![Frame(r)].pc = "dispatching",
               ![Frame(r)].llm_response = Some(OwnResponse(r, own[r].calls, tool)),
               ![Frame(r)].messages =
                  Append(@, OwnTurn("assistant", "assistant_blocks", r, own[r].calls))]
       ELSE [frames EXCEPT
               ![Frame(r)].pc = "loop",
               ![Frame(r)].llm_response = Some(OwnResponse(r, own[r].calls, tool)),
               ![Frame(r)].continue_with_tools = FALSE,
               ![Frame(r)].max_recursions = @ - 1]
  /\ UNCHANGED <<streaming, retriever, tool_config, single, agent>>

\* _process_tool_block of call r resolves a handler and calls it, or raises
TwoDispatch(r) ==
  /\ frames[Frame(r)].pc = "dispatching"
  /\ frames' =
       IF _process_tool_block(tool_config) \in Handlers
       THEN [frames EXCEPT ![Frame(r)].pc = "in_tool"]
       ELSE [frames EXCEPT ![Frame(r)].pc = "error",
                           ![Frame(r)].error = _process_tool_block(tool_config)]
  /\ UNCHANGED <<streaming, retriever, tool_config, single, agent, own>>

\* the handler of call r returns: the tool results are appended and the
\* round is counted
TwoToolReturn(r) ==
  /\ frames[Frame(r)].pc = "in_tool"
  /\ frames' = [frames EXCEPT
                  ![Frame(r)].pc = "loop",
                  ![Frame(r)].messages =
                     Append(@, OwnTurn("user", "tool_result", r, own[r].calls)),
                  ![Frame(r)].max_recursions = @ - 1]
  /\ own' = [own EXCEPT ![r].rounds = @ + 1]
  /\ UNCHANGED <<streaming, retriever, tool_config, single, agent>>

\* the loop test of call r fails: the final message is built from the call's
\* last response
TwoFinish(r) ==
  /\ frames[Frame(r)].pc = "loop"
  /\ ~LoopCondition(frames[Frame(r)].continue_with_tools,
                    frames[Frame(r)].max_recursions)
  /\ frames' =
       IF frames[Frame(r)].llm_response = None
       THEN [frames EXCEPT ![Frame(r)].pc = "error",
                           ![Frame(r)].error = "AttributeError"]
       ELSE [frames EXCEPT ![Frame(r)].pc = "done",
                           ![Frame(r)].result = frames[Frame(r)].llm_response]
  /\ UNCHANGED <<streaming, retriever, tool_config, single, agent, own>>

Next ==
  \/ ProcessRequest
  \/ RetrieveFail
  \/ CallTransport
  \/ TransportFail
  \/ SingleResponseReturn
  \/ StreamOpened
  \/ StreamTextEvent
  \/ HookFail
  \/ StreamStopEvent
  \/ GetFinalMessage
  \/ ProcessToolBlock
  \/ ToolReturn
  \/ ToolFail
  \/ ReturnFinal
  \/ GeneratorEnd

Spec == Init /\ [][Next]_vars

\* ------------------------------------------------------------ notions of the claims
Terminal == pc \in {"done", "error"}

Last(seq) == seq[Len(seq)]

\* the budget a tool configuration asks for
ConfiguredMax ==
  IF tool_config[1].hasMax THEN tool_config[1].toolMaxRecursions ELSE 5

IsFinalChunk(chunk) == chunk.final_message # None

\* the final ConversationMessage the caller got: the returned message, or the
\* message of the terminal chunk that ends the emitted sequence
Delivered ==
  IF streaming
    THEN IF emitted # <<>> /\ IsFinalChunk(Last(emitted))
           THEN Last(emitted).final_message
           ELSE None
    ELSE result

\* the first text block of a response that has one
FirstTextBlock(content) ==
  content[CHOOSE i \in 1..Len(content) :
            /\ content[i].type = "text"
            /\ \A j \in 1..(i - 1) : content[j].type # "text"]

\* text fragments, in order, of the text chunks of an emitted sequence
EmittedTexts ==
  LET chunks == SelectSeq(emitted, LAMBDA c : ~IsFinalChunk(c))
  IN  [i \in 1..Len(chunks) |-> chunks[i].text[1]]

ScriptedTexts == [i \in 1..Len(scriptedTexts) |-> scriptedTexts[i].text]

\* zero or more text chunks, then exactly one terminal chunk
TextsThenOneTerminal(seq) ==
  /\ seq # <<>>
  /\ IsFinalChunk(Last(seq))
  /\ \A i \in 1..(Len(seq) - 1) : ~IsFinalChunk(seq[i])

\* ------------------------------------------------------------ C1
\* C1 as stated: with tools configured and toolMaxRecursions = N >= 1, a run
\* that ended without error made at most N transport rounds, and fewer than N
\* if and only if one of its responses contains no tool-use block.
C1_AsStated ==
  (pc = "done" /\ tool_config # None /\ ConfiguredMax >= 1) =>
     /\ transportCalls <= ConfiguredMax
     /\ (transportCalls < ConfiguredMax) <=>
          (\E i \in 1..Len(responses) : ~HasToolUse(responses[i]))

\* C1 amended: with tools configured and toolMaxRecursions = N >= 1, no run
\* makes more than N transport rounds, and a finished run made fewer than N
\* if and only if one of its first N-1 responses contains no tool-use block
\* or it ended in an error before round N.
C1_RoundsBounded ==
  (tool_config # None /\ ConfiguredMax >= 1) =>
     /\ transportCalls <= ConfiguredMax
     /\ Terminal =>
          ((transportCalls < ConfiguredMax) <=>
             \/ \E i \in 1..Len(responses) :
                  i < ConfiguredMax /\ ~HasToolUse(responses[i])
             \/ error # NoError /\ transportCalls < ConfiguredMax)

\* a run with budget 3 that ended normally after two rounds
C1_Witness ==
  /\ tool_config # None
  /\ ConfiguredMax = 3
  /\ pc = "done"
  /\ transportCalls = 2

\* ------------------------------------------------------------ C2
\* C2: without tool configuration the budget the loop starts with is 1, no
\* tool handler is ever invoked, and a finished run that got as far as the
\* loop made exactly one transport round, whatever the transport returned.
C2_NoToolsOneRound ==
  tool_config = None =>
     /\ (pc = "loop" /\ transportCalls = 0) => max_recursions = 1
     /\ toolDispatches = 0
     /\ transportCalls <= 1
     /\ (Terminal /\ error # "RetrieverError") => transportCalls = 1

\* a finished run without tools whose only response carried a tool-use block
C2_Witness ==
  /\ tool_config = None
  /\ Terminal
  /\ Len(responses) = 1
  /\ HasToolUse(responses[1])

\* ------------------------------------------------------------ C3
\* C3 as stated: a streaming run of at least one round that ends without
\* error has emitted zero or more text chunks followed by exactly one
\* terminal chunk, also when the budget ran out on a tool-use response.
C3_AsStated ==
  (streaming /\ pc = "done" /\ transportCalls >= 1) => TextsThenOneTerminal(emitted)

\* ------------------------------------------------------------ C4
\* C4 as stated: in a streaming run that ends without error the text chunks
\* emitted are exactly the text events the transport scripted, in order.
C4_AsStated ==
  (streaming /\ pc = "done") => EmittedTexts = ScriptedTexts

\* ------------------------------------------------------------ C5
\* C5 as stated: when the budget N >= 1 runs out on a response that still
\* carries a tool-use block (every round's tool having been dispatched, no
\* collaborator having failed), the run ends in DONE after exactly N
\* transport calls and delivers a final assistant message.
C5_AsStated ==
  (/\ Terminal
   /\ tool_config # None
   /\ ConfiguredMax >= 1
   /\ Len(responses) = ConfiguredMax
   /\ HasToolUse(Last(responses))
   /\ toolDispatches = ConfiguredMax
   /\ raised = NoError) =>
     /\ pc = "done"
     /\ transportCalls = ConfiguredMax
     /\ Delivered # None
     /\ Delivered[1].role = "assistant"

C7_AsStated ==
  (/\ tool_config # None
   /\ tool_config[1].tool = "list"
   /\ ~tool_config[1].useToolHandler) => transportCalls = 0

\* ------------------------------------------------------------ C8
\* every tool-result turn comes right after the assistant turn of its round
ToolResultsFollowRequest(msgs) ==
  \A i \in 1..Len(msgs) :
    msgs[i].kind = "tool_result" =>
      /\ i > 1
      /\ msgs[i - 1].kind = "assistant_blocks"
      /\ msgs[i - 1].role = "assistant"
      /\ msgs[i - 1].round = msgs[i].round
      /\ HasToolUse(msgs[i - 1].blocks)

NoRepeatedRole(msgs) ==
  \A i \in 1..(Len(msgs) - 1) : msgs[i].role # msgs[i + 1].role

WithoutToolResults(msgs) == SelectSeq(msgs, LAMBDA m : m.kind # "tool_result")

\* a stored history that alternates and, if not empty, ends with an assistant turn
AlternatingHistory ==
  /\ \A i \in 1..(Len(chat_history) - 1) : chat_history[i].role # chat_history[i + 1].role
  /\ chat_history # <<>> => Last(chat_history).role = "assistant"

\* C8 as stated: at every transport call each tool-result turn directly follows
\* the assistant turn that requested it and, the tool-result turns left out,
\* no two consecutive turns of the payload have the same role.
C8_AsStated ==
  pc = "awaiting" =>
     /\ ToolResultsFollowRequest(messages)
     /\ NoRepeatedRole(WithoutToolResults(messages))

\* C8 amended: at every transport call each tool-result turn directly follows
\* the assistant turn that requested it; and when the chat history alternates
\* and is empty or ends with an assistant turn, no two consecutive turns of
\* the payload have the same role, the tool-result turns counted as the
\* user-role turns they are.
C8_RoleAlternation ==
  pc = "awaiting" =>
     /\ ToolResultsFollowRequest(messages)
     /\ AlternatingHistory => NoRepeatedRole(messages)

\* the third transport call of a request made with a stored history
C8_Witness ==
  /\ pc = "awaiting"
  /\ transportCalls = 3
  /\ chat_history # <<>>
  /\ AlternatingHistory
  /\ Len(SelectSeq(messages, LAMBDA m : m.kind = "tool_result")) = 2

\* ------------------------------------------------------------ C9
\* C9: once the transport, the stream callback or the tool handler has raised,
\* the caller has received that very error, and no transport call and no tool
\* dispatch follows.
C9_NoRetry ==
  /\ [](raised # NoError => (pc = "error" /\ error = raised))
  /\ [][raised # NoError =>
          (transportCalls' = transportCalls /\ toolDispatches' = toolDispatches)]_vars

\* a tool handler that raised in the second round
C9_Witness ==
  /\ raised = "ToolDispatchError"
  /\ error = "ToolDispatchError"
  /\ transportCalls = 2
  /\ toolDispatches = 2

\* ------------------------------------------------------------ C10
\* C10 as stated: once the loop is set up the budget is never negative, it is
\* the configured toolMaxRecursions (default 5, 1 without tools) less one per
\* earlier round at every transport call, and no transport call starts on a
\* budget of 0.
C10_AsStated ==
  (pc \notin {"start"} /\ error \notin {"RetrieverError", "RuntimeError"}) =>
     /\ max_recursions >= 0
     /\ pc = "awaiting" =>
          /\ max_recursions > 0
          /\ max_recursions =
               (IF tool_config = None THEN 1 ELSE ConfiguredMax) - (transportCalls - 1)

\* ------------------------------------------------------------ C11
\* whether a handler can be resolved: a custom handler, or a registry
CustomHandlerSet == tool_config # None /\ tool_config[1].useToolHandler

RegistrySet == tool_config # None /\ tool_config[1].tool = "AgentTools"

\* C11: every handler call the bridge made is for a tool-bearing response and
\* got that response and a conversation ending with its assistant turn;
\* with a custom handler set it is the custom handler, called without a
\* provider tag, registry or not; otherwise it is the registry's handler,
\* called with the Anthropic tag; what a handler returned is the very turn
\* appended for its round; and a bridge call with neither a custom handler
\* nor a registry ended in an error with no handler invoked.
C11_ResolutionOrder ==
  /\ Len(dispatchLog) = toolDispatches
  /\ \A i \in 1..Len(dispatchLog) :
       LET c == dispatchLog[i] IN
         /\ c.response = responses[c.round]
         /\ \E b \in 1..Len(c.response) : c.response[b].type = "tool_use"
         /\ c.conversation # <<>>
         /\ Last(c.conversation).blocks = c.response
         /\ Last(c.conversation).round = c.round
         /\ IF CustomHandlerSet
              THEN c.handler = "useToolHandler" /\ c.provider = None
              ELSE /\ RegistrySet
                   /\ c.handler = "tool_handler"
                   /\ c.provider = Some("ANTHROPIC")
         /\ c.returned # None =>
              \E j \in 1..Len(messages) :
                /\ messages[j] = c.returned[1]
                /\ messages[j - 1] = Last(c.conversation)
  /\ \A i \in 1..Len(log) :
       log[i].ev = "bridge_call" =>
         IF CustomHandlerSet \/ RegistrySet
           THEN Cardinality({ j \in 1..Len(dispatchLog) :
                              dispatchLog[j].round = log[i].round }) = 1
           ELSE /\ dispatchLog = <<>>
                /\ pc = "error"
                /\ error = IF tool_config = None THEN "TypeError" ELSE "ValueError"

\* a registry with a custom handler on top: the custom handler was called and
\* has returned
C11_Witness ==
  /\ CustomHandlerSet
  /\ RegistrySet
  /\ dispatchLog # <<>>
  /\ dispatchLog[1].handler = "useToolHandler"
  /\ dispatchLog[1].returned # None

\* ------------------------------------------------------------ C13
\* C13 as stated: a notification hook that fails on a text event does not stop
\* the streaming loop: no error reaches the caller, and once the run has
\* ended every text fragment the loop read has been forwarded and a terminal
\* chunk ends the sequence.
C13_AsStated ==
  raised = "HookError" =>
     /\ error = NoError
     /\ pc = "done" => TextsThenOneTerminal(emitted)

\* ------------------------------------------------------------ C15
\* C15: no step of process_request, on any path, changes the caller's
\* chat_history or any message in it.
C15_HistoryUnchanged == [][chat_history' = chat_history]_vars

\* a request made with a stored history whose second round failed in the tool
\* handler, two turns having been appended to the payload by then
C15_Witness ==
  /\ Len(chat_history) = 2
  /\ pc = "error"
  /\ raised = "ToolDispatchError"
  /\ Len(messages) = Len(chat_history) + 4

\* ------------------------------------------------------------ C17
\* a response that asks for a tool
RequestsTool(content) == \E b \in 1..Len(content) : content[b].type = "tool_use"

\* the transport and bridge events of the log, the stream events left out
CallEvents ==
  SelectSeq(log, LAMBDA e : e.ev \in {"transport_call", "transport_return",
                                      "bridge_call", "bridge_return", "bridge_raise"})

BridgeCallsOfRound(k) ==
  Cardinality({ i \in 1..Len(log) : log[i] = Event("bridge_call", k) })

\* C17: the bridge is invoked exactly once for every round whose response has
\* a tool-use block and never for another round; a transport call returns
\* before anything else happens, the bridge call of round k comes right after
\* transport call k returned, and transport call k+1 starts only after the
\* bridge call of round k has returned; and when the budget runs out on a
\* tool-use response, that round's tool has been dispatched and its result
\* is the last turn of the payload, no further transport call being made.
C17_DispatchOrder ==
  /\ \A i \in 1..Len(CallEvents) :
       LET e == CallEvents[i] IN
         /\ e.ev = "transport_call" =>
              \/ i = 1 /\ e.round = 1
              \/ i > 1 /\ CallEvents[i - 1] = Event("bridge_return", e.round - 1)
         /\ e.ev = "transport_return" =>
              i > 1 /\ CallEvents[i - 1] = Event("transport_call", e.round)
         /\ e.ev = "bridge_call" =>
              i > 1 /\ CallEvents[i - 1] = Event("transport_return", e.round)
         /\ e.ev \in {"bridge_return", "bridge_raise"} =>
              i > 1 /\ CallEvents[i - 1] = Event("bridge_call", e.round)
  /\ \A k \in 1..Len(responses) :
       BridgeCallsOfRound(k) =
         IF RequestsTool(responses[k]) /\ ~(pc = "dispatching" /\ k = Len(responses))
           THEN 1 ELSE 0
  /\ (/\ pc \in {"loop", "done", "error"}
      /\ responses # <<>>
      /\ RequestsTool(Last(responses))
      /\ max_recursions = 0
      /\ raised = NoError
      /\ error \notin {"ValueError", "TypeError"}) =>
        /\ Last(CallEvents) = Event("bridge_return", Len(responses))
        /\ Last(messages).kind = "tool_result"
        /\ Last(messages).round = Len(responses)
        /\ transportCalls = Len(responses)

\* a streaming run of two tool rounds that used up a budget of 2
C17_Witness ==
  /\ streaming
  /\ pc = "done"
  /\ max_recursions = 0
  /\ Len(responses) = 2
  /\ RequestsTool(responses[2])
  /\ BridgeCallsOfRound(2) = 1

\* ------------------------------------------------------------ C19
\* the turns of the request as built: one per stored message, then the input
IsInitialConversation(msgs) ==
  /\ Len(msgs) = Len(chat_history) + 1
  /\ \A i \in 1..Len(chat_history) :
       /\ msgs[i].role = chat_history[i].role
       /\ msgs[i].kind = "text"
  /\ Last(msgs).role = "user"
  /\ Last(msgs).text = "in"

\* C19: the first transport call carries the history turns plus the new user
\* turn; the conversation handed to the handler in round k is the payload's
\* message list of call k followed by the assistant turn carrying response k
\* (so the initial conversation, k-1 pairs and that turn); and the payload
\* of call k+1 is the payload of call k extended by that assistant turn and
\* the turn the handler returned, with the other fields as they were.
C19_PayloadGrowth ==
  /\ payloads # <<>> => IsInitialConversation(payloads[1].messages)
  /\ \A i \in 1..Len(dispatchLog) :
       LET c == dispatchLog[i] IN
         /\ c.round = i
         /\ Len(c.conversation) = Len(chat_history) + 1 + 2 * (i - 1) + 1
         /\ SubSeq(c.conversation, 1, Len(c.conversation) - 1) = payloads[i].messages
         /\ Last(c.conversation).role = "assistant"
         /\ Last(c.conversation).blocks = responses[i]
  /\ \A k \in 1..(Len(payloads) - 1) :
       /\ Len(payloads[k + 1].messages) = Len(payloads[k].messages) + 2
       /\ payloads[k + 1].messages =
            dispatchLog[k].conversation \o <<dispatchLog[k].returned[1]>>
       /\ Last(payloads[k + 1].messages).kind = "tool_result"
       /\ payloads[k + 1].rest = payloads[k].rest

\* the handler at work in the third round of a request with a stored history
C19_Witness ==
  /\ pc = "in_tool"
  /\ Len(payloads) = 3
  /\ Len(dispatchLog) = 3
  /\ chat_history # <<>>

\* ------------------------------------------------------------ C20
\* C20: with tools configured and toolMaxRecursions <= 0 no transport call and
\* no tool dispatch is ever made and the budget stays at the configured
\* value; the single-response loop ends with an error and returns no message,
\* the streaming loop ends without error having emitted nothing.
C20_NonPositiveBudget ==
  (tool_config # None /\ ConfiguredMax <= 0) =>
     /\ transportCalls = 0
     /\ toolDispatches = 0
     /\ log = <<>>
     /\ (pc # "start" /\ error \notin {"RetrieverError", "RuntimeError"}) =>
          max_recursions = ConfiguredMax
     /\ (Terminal /\ error \notin {"RetrieverError", "RuntimeError"}) =>
          IF streaming
            THEN pc = "done" /\ error = NoError /\ emitted = <<>>
            ELSE pc = "error" /\ error = "AttributeError" /\ result = None

\* a single-response request with a negative budget that has ended
C20_Witness ==
  /\ ~streaming
  /\ tool_config # None
  /\ ConfiguredMax < 0
  /\ pc = "error"
  /\ error = "AttributeError"

\* ------------------------------------------------------------ C14
\* streaming requests, with a consumer that may drop the sequence after a text
\* chunk; every pending step is eventually taken: the transport delivers,
\* handlers come back, the consumer asks for the next chunk or drops the
\* sequence, and dropped generators are closed by the runtime
InitStream == Init /\ streaming

NextStream ==
  \/ ProcessRequest
  \/ RetrieveFail
  \/ CallTransport
  \/ TransportFail
  \/ StreamOpened
  \/ StreamTextEvent
  \/ HookFail
  \/ StreamStopEvent
  \/ GetFinalMessage
  \/ ProcessToolBlock
  \/ ToolReturn
  \/ ToolFail
  \/ GeneratorEnd
  \/ Abandon
  \/ Finalize

SpecStream == InitStream /\ [][NextStream]_vars /\ WF_vars(NextStream)

CountEvents(ev) == Cardinality({ i \in 1..Len(log) : log[i].ev = ev })

OpenStreams == CountEvents("stream_open") - CountEvents("stream_close")

\* every stream opened earlier in the log was closed before position i
ClosedBefore(i) ==
  \A j \in 1..(i - 1) :
    log[j].ev = "stream_open" =>
      \E k \in (j + 1)..(i - 1) : log[k] = Event("stream_close", log[j].round)

CallTransportBounded ==
  /\ transportCalls < MaxRounds
  /\ CallTransport

NextReturns ==
  \/ ProcessRequest
  \/ CallTransportBounded
  \/ SingleResponseReturn
  \/ StreamOpened
  \/ StreamTextEvent
  \/ StreamStopEvent
  \/ GetFinalMessage
  \/ ProcessToolBlock
  \/ ToolReturn
  \/ ReturnFinal
  \/ GeneratorEnd

\* termination does not depend on the history or on the retriever: requests
\* with an empty history and no retriever, every mode and tool configuration
InitReturns == Init /\ chat_history = <<>> /\ ~retriever

SpecReturns == InitReturns /\ [][NextReturns]_vars /\ WF_vars(NextReturns)

\* the request never got as far as a returning dispatch: the tool
\* configuration was rejected, or no handler could be resolved
NotDispatchable == error \in {"RuntimeError", "ValueError", "TypeError"}

\* the loop has been left: its test has failed, or the code after it has run
LoopLeft ==
  \/ pc = "loop" /\ ~LoopCondition(continue_with_tools, max_recursions)
  \/ pc = "done"
  \/ pc = "error" /\ ~NotDispatchable

\* C18: when transport calls and tool handlers return and the consumer keeps
\* consuming, every request whose dispatches resolve to a handler leaves the
\* loop after finitely many rounds, also when every response asks for a tool.
C18_Termination == <>(LoopLeft \/ NotDispatchable)

\* the default budget used up by a model that asked for a tool every time
C18_Witness ==
  /\ LoopLeft
  /\ continue_with_tools
  /\ transportCalls = default_max_recursions
  /\ \A i \in 1..Len(responses) : RequestsTool(responses[i])

\* ------------------------------------------------------------ C16
\* templates are built from up to MaxPieces pieces: braces alone and in
\* pairs, a word character, a character that is not a word character
Pieces == {<<"{", "{">>, <<"}", "}">>, <<"{">>, <<"}">>, <<"n">>, <<"-">>}

RECURSIVE Flatten(_)
Flatten(seqs) == IF seqs = <<>> THEN <<>> ELSE Head(seqs) \o Flatten(Tail(seqs))

Templates ==
  { Flatten(pieces) : pieces \in UNION { [1..k -> Pieces] : k \in 1..MaxPieces } }

\* a value that holds a placeholder of its own, a list, a name that is not a
\* word; the names nnn, nnnn, ... are keys of no mapping
SomeVariables ==
  [key \in {<<"n">>, <<"n", "n">>, <<"-">>} |->
     IF key = <<"n">> THEN Str(<<"{", "{", "n", "n", "}", "}">>)
     ELSE IF key = <<"n", "n">> THEN List(<<<<"x">>, <<"y">>>>)
     ELSE Str(<<"z">>)]

Mappings == {NoVariables, SomeVariables}

\* an agent whose template and variables have been set and not yet rendered
InitReplace ==
  /\ InitRequest
  /\ ~streaming /\ ~retriever /\ tool_config = None /\ chat_history = <<>>
  /\ prompt_template \in Templates
  /\ custom_variables \in Mappings
  /\ system_prompt = <<>>
  /\ InitCalls

\* update_system_prompt
UpdateSystemPrompt ==
  /\ system_prompt' = replace_placeholders(prompt_template, custom_variables)
  /\ UNCHANGED <<config, pc, max_recursions, continue_with_tools, messages,
                 llm_response, stream, stream_content, emitted, result, error,
                 history, payload_rest, observed, prompt_template,
                 custom_variables>>
  /\ UNCHANGED calls

NextReplace == UpdateSystemPrompt

SpecReplace == InitReplace /\ [][NextReplace]_vars

\* the template's characters i..j are {{, a name, }}
Braced(i, j) ==
  /\ j >= i + 4
  /\ j <= Len(prompt_template)
  /\ prompt_template[i] = "{" /\ prompt_template[i + 1] = "{"
  /\ prompt_template[j - 1] = "}" /\ prompt_template[j] = "}"

NameOf(i, j) == SubSeq(prompt_template, i + 2, j - 2)

\* {{name}} with any key of the mapping as the name
KeyPlaceholder(i, j) ==
  /\ Braced(i, j)
  /\ NameOf(i, j) \in DOMAIN custom_variables

\* {{name}} with a key of the mapping that consists of word characters
WordKeyPlaceholder(i, j) ==
  /\ KeyPlaceholder(i, j)
  /\ \A q \in (i + 2)..(j - 2) : prompt_template[q] \in WordChars

ValueText(value) == IF value.list THEN Join(value.items) ELSE value.items[1]

\* the text position p of the template contributes: the value, where a
\* placeholder starts; nothing, inside one; the character itself, elsewhere
Contribution(p, Placeholder(_, _)) ==
  IF \E j \in p..Len(prompt_template) : Placeholder(p, j)
  THEN ValueText(custom_variables[
         NameOf(p, CHOOSE j \in p..Len(prompt_template) : Placeholder(p, j))])
  ELSE IF \E i \in 1..(p - 1) : \E j \in p..Len(prompt_template) : Placeholder(i, j)
       THEN <<>>
       ELSE <<prompt_template[p]>>

ExpectedText(Placeholder(_, _)) ==
  Flatten([p \in 1..Len(prompt_template) |-> Contribution(p, Placeholder)])

\* C16 as the spec states it: every {{name}} whose name is a key of the
\* mapping is replaced by the value, everything else stays.
C16_AsStated ==
  system_prompt # <<>> => system_prompt = ExpectedText(KeyPlaceholder)

\* C16: every {{name}} whose name is a run of word characters and a key of
\* the mapping is replaced by the value (a list joined with newlines),
\* everything else stays as it is, and replaced text is not looked at again.
C16_Substitution ==
  [][UpdateSystemPrompt => system_prompt' = ExpectedText(WordKeyPlaceholder)]_vars

\* {{n}}{{-}}: the value of n, which holds {{nn}}, then {{-}} as it was
C16_Witness ==
  /\ prompt_template = <<"{", "{", "n", "}", "}", "{", "{", "-", "}", "}">>
  /\ custom_variables = SomeVariables
  /\ system_prompt = <<"{", "{", "n", "n", "}", "}", "{", "{", "-", "}", "}">>

\* ------------------------------------------------------------ C12
\* two calls on one agent, interleaved at every step boundary
InitTwo == Init /\ chat_history = <<>>

NextTwo ==
  \E r \in Requests :
    \/ TwoStart(r)
    \/ TwoRetrieved(r)
    \/ TwoCall(r)
    \/ TwoChunk(r)
    \/ \E tool \in BOOLEAN : TwoRespond(r, tool)
    \/ TwoDispatch(r)
    \/ TwoToolReturn(r)
    \/ TwoFinish(r)

SpecTwo == InitTwo /\ [][NextTwo]_vars

\* C12: whatever the interleaving of two calls on one agent, the message
\* list of each call holds only that call's turns, its prompt holds only its
\* own retrieved context, its chunks and its final message come from its own
\* responses, and its budget is the initial budget less its own rounds.
C12_Isolation ==
  \A r \in Requests :
    /\ \A i \in 1..Len(frames[r].messages) : frames[r].messages[i].owner = r
    /\ \A i \in 1..Len(frames[r].emitted) : frames[r].emitted[i].owner = r
    /\ frames[r].system.context \in {None, Some(r)}
    /\ frames[r].llm_response = own[r].last
    /\ frames[r].result # None => frames[r].result = own[r].last
    /\ own[r].entered =>
         frames[r].max_recursions =
           _get_max_recursions(tool_config) - own[r].rounds
    /\ ~own[r].entered => frames[r].max_recursions = 0

\* both calls suspended in the tool dispatch of their second round
C12_Witness ==
  \A r \in Requests :
    /\ frames[r].pc = "in_tool"
    /\ own[r].rounds = 1
    /\ own[r].calls = 2
    /\ Len(frames[r].messages) = 4

====
